---- MODULE Spec2Model ----
(***************************************************************************)
(* Control plane of the privaxy proxy: the warp routes of                  *)
(* privaxy/src/server/web_gui/mod.rs, the request handlers they dispatch   *)
(* to, and the requests built by the web frontend's SearchFilterList       *)
(* component (web_frontend/src/filterlists.rs).                            *)
(*                                                                         *)
(* Every HTTP request is served by its own task (a member of Handlers).    *)
(* A task walks through the configuration mutation pipeline                *)
(*   start -> validate -> fetch -> mutate -> persist -> notify -> release  *)
(*         -> respond -> done                                              *)
(* or, for the routes that are not handed the save lock, through           *)
(*   start -> handle -> respond -> done.                                   *)
(*                                                                         *)
(* Specifications:                                                         *)
(*   Spec            the HTTP handlers and the proxy engine's channel,     *)
(*                   with clients that may close their connection while    *)
(*                   their handler is suspended;                           *)
(*   TelemetrySpec   the events topic (tokio broadcast channel) and its    *)
(*                   websocket connections, which share no state with the  *)
(*                   HTTP handlers;                                        *)
(*   StaticSpec      the static file server of the web frontend bundle;    *)
(*   FrontendSpec    the SearchFilterList component, its loading tasks and *)
(*                   the add/remove requests it sends to the API server.   *)
(***************************************************************************)
EXTENDS Naturals, Integers, Sequences, FiniteSets, TLC

\* ------------------------------------------------------------------ bounds

\* Number of request tasks (one HTTP request each) in a behaviour.
NumHandlers == 2

\* Capacity of the configuration-update channel to the proxy engine.
ChanCapacity == 1

Handlers == 1..NumHandlers

\* ------------------------------------------------------------ value domains

Texts == {"", "||ads^", "||track^"}
ExclusionEntries == {"example.org"}
NoUrl == "<parse error>"

\* The Configuration the process loads at start: empty, or one subscribed list.
EmptyConfiguration == [filters |-> {}, custom |-> "", exclusions |-> {}]

Filter(name, group, url, enabled) ==
    [name |-> name, group |-> group, url |-> url, enabled |-> enabled]

LoadedConfigurations ==
    { EmptyConfiguration,
      [filters |-> {Filter("Peter", "Regional", "https://b/", TRUE)},
       custom |-> "", exclusions |-> {}] }

\* --------------------------------------------------- web frontend requests

\* url::Url::parse on the catalogue's primary_view_url strings: the scheme and
\* host are lower-cased and an empty path becomes "/"; a string without a
\* scheme is an error.
UrlParse(s) ==
    CASE s = "https://A"  -> "https://a/"
      [] s = "https://a/" -> "https://a/"
      [] s = "https://b/" -> "https://b/"
      [] OTHER            -> NoUrl

FILTER_TAG_GROUPS == {"ads", "privacy", "malware", "social"}

\* The tag list once TagsLoaded has been processed (empty before that).
LoadedTags == << [id |-> 1, name |-> "ads"], [id |-> 2, name |-> "list"] >>

\* Catalogue rows of filterlists.com shown by the component.
Catalogue ==
    { [name |-> "EasyList", primary_view_url |-> "https://A", tag_ids |-> {1, 2}],
      [name |-> "Peter", primary_view_url |-> "https://b/", tag_ids |-> {2}],
      [name |-> "Broken", primary_view_url |-> "filters.txt", tag_ids |-> {}] }

TagGroup(tag_name) ==
    CASE tag_name = "ads"     -> "Ads"
      [] tag_name = "privacy" -> "Privacy"
      [] tag_name = "malware" -> "Malware"
      [] tag_name = "social"  -> "Social"
      [] OTHER                -> "Regional"

\* The group AddFilter derives: the first tag of self.tags that the filter
\* carries and that names a group, Regional when there is none.
FilterGroupOf(tags, filter) ==
    LET hits == { i \in 1..Len(tags) :
                    /\ tags[i].id \in filter.tag_ids
                    /\ tags[i].name \in FILTER_TAG_GROUPS }
    IN  IF hits = {} THEN "Regional"
        ELSE TagGroup(tags[CHOOSE i \in hits : \A j \in hits : i <= j].name)

Request(method, path) ==
    [method |-> method, path |-> path, name |-> "", group |-> "", url |-> "",
     enabled |-> FALSE, text |-> "", entries |-> {}]

\* AddFilterRequest::new(name, group, source_url) sent with POST or DELETE.
AddFilterRequest(method, name, group, url) ==
    [Request(method, "filters") EXCEPT !.name = name, !.group = group, !.url = url]

\* SearchFilterMessage::AddFilter: the POST the component sends, none when
\* the URL does not parse.
AddFilterMessage(tags, filter) ==
    IF UrlParse(filter.primary_view_url) = NoUrl THEN {}
    ELSE { AddFilterRequest("POST", filter.name, FilterGroupOf(tags, filter),
                            UrlParse(filter.primary_view_url)) }

\* Variant: the DELETE carries the catalogue's URL string as it stands
\* instead of the parsed Url.
RemoveFilterMessage_unparsed(filter) ==
    IF UrlParse(filter.primary_view_url) = NoUrl THEN {}
    ELSE { AddFilterRequest("DELETE", filter.name, "Malware",
                            filter.primary_view_url) }

\* SearchFilterMessage::RemoveFilter: the DELETE the component sends.
RemoveFilterMessage(filter) ==
    IF UrlParse(filter.primary_view_url) = NoUrl THEN {}
    ELSE { AddFilterRequest("DELETE", filter.name, "Malware",
                            UrlParse(filter.primary_view_url)) }

FrontendRequests ==
    UNION { AddFilterMessage(LoadedTags, f) \cup AddFilterMessage(<< >>, f)
            \cup RemoveFilterMessage(f) : f \in Catalogue }

\* Requests of other API clients.
ApiRequests ==
    { AddFilterRequest("POST", "Peter", "Ads", "https://a/") }
    \cup { [Request("PUT", "filters") EXCEPT !.url = u, !.enabled = FALSE] :
             u \in {"https://a/", "https://b/"} }
    \cup { [Request("PUT", "custom-filters") EXCEPT !.text = t] :
             t \in Texts \ {""} }
    \cup { [Request("PUT", "exclusions") EXCEPT !.entries = s] :
             s \in SUBSET ExclusionEntries }
    \cup { [Request("PUT", "blocking-enabled") EXCEPT !.enabled = b] :
             b \in BOOLEAN }
    \cup { Request("GET", p) :
             p \in {"filters", "custom-filters", "exclusions", "blocking-enabled"} }

Requests == FrontendRequests \cup ApiRequests

NoRequest == Request("", "")

\* ------------------------------------------------------------------ routes

\* Variant: a new Mutex built for every request instead of the shared Arc.
with_configuration_save_lock_fresh(h) == h

\* with_configuration_save_lock: the mutex handed to the task serving a
\* request; every route clones the one Arc created at start-up (lock 0).
with_configuration_save_lock(h) == 0

LockIds == 0..NumHandlers

Route(handler, extracts) == [handler |-> handler, extracts |-> extracts]

NoRoute == Route("none", {})

\* Variant: the DELETE arm of /filters built without the save lock.
filters_route_delete_unlocked(method) ==
    CASE method = "GET" -> Route("get_filters_configuration", {})
      [] method = "PUT" ->
            Route("change_filter_status",
                  {"configuration_updater_sender", "configuration_save_lock"})
      [] method = "POST" ->
            Route("add_filter",
                  {"http_client", "configuration_updater_sender",
                   "configuration_save_lock"})
      [] method = "DELETE" ->
            Route("delete_filter", {"configuration_updater_sender"})
      [] OTHER -> NoRoute

\* filters_route: the handler each method of /filters dispatches to and the
\* shared state the route extracts for it.
filters_route(method) ==
    CASE method = "GET" -> Route("get_filters_configuration", {})
      [] method = "PUT" ->
            Route("change_filter_status",
                  {"configuration_updater_sender", "configuration_save_lock"})
      [] method = "POST" ->
            Route("add_filter",
                  {"http_client", "configuration_updater_sender",
                   "configuration_save_lock"})
      [] method = "DELETE" ->
            Route("delete_filter",
                  {"configuration_updater_sender", "configuration_save_lock"})
      [] OTHER -> NoRoute

\* Variant: the PUT arm of /custom-filters built without the save lock.
custom_filters_route_unlocked(method) ==
    CASE method = "GET" -> Route("get_custom_filters", {})
      [] method = "PUT" ->
            Route("put_custom_filters", {"configuration_updater_sender"})
      [] OTHER -> NoRoute

\* Variant: the GET arm of /custom-filters built with the save lock.
custom_filters_route_get_locked(method) ==
    CASE method = "GET" ->
            Route("get_custom_filters", {"configuration_save_lock"})
      [] method = "PUT" ->
            Route("put_custom_filters",
                  {"configuration_updater_sender", "configuration_save_lock"})
      [] OTHER -> NoRoute

custom_filters_route(method) ==
    CASE method = "GET" -> Route("get_custom_filters", {})
      [] method = "PUT" ->
            Route("put_custom_filters",
                  {"configuration_updater_sender", "configuration_save_lock"})
      [] OTHER -> NoRoute

\* Variant: GET /exclusions wired to the custom-filters reader.
exclusions_route_miswired(method) ==
    CASE method = "GET" -> Route("get_custom_filters", {})
      [] method = "PUT" ->
            Route("put_exclusions",
                  {"configuration_updater_sender", "configuration_save_lock",
                   "local_exclusions_store"})
      [] OTHER -> NoRoute

exclusions_route(method) ==
    CASE method = "GET" -> Route("get_exclusions", {})
      [] method = "PUT" ->
            Route("put_exclusions",
                  {"configuration_updater_sender", "configuration_save_lock",
                   "local_exclusions_store"})
      [] OTHER -> NoRoute

blocking_enabled_route(method) ==
    CASE method = "GET" -> Route("get_blocking_enabled", {"blocking_disabled_store"})
      [] method = "PUT" -> Route("put_blocking_enabled", {"blocking_disabled_store"})
      [] OTHER -> NoRoute

\* create_routes: the routes by path.
create_routes(method, path) ==
    CASE path = "filters"          -> filters_route(method)
      [] path = "custom-filters"   -> custom_filters_route(method)
      [] path = "exclusions"       -> exclusions_route(method)
      [] path = "blocking-enabled" -> blocking_enabled_route(method)
      [] OTHER                     -> NoRoute

\* The handler a request is dispatched to.
HandlerOf(r) == create_routes(r.method, r.path).handler

ConfigurationMutations ==
    {"add_filter", "delete_filter", "change_filter_status",
     "put_custom_filters", "put_exclusions"}

IsConfigurationMutation(r) == HandlerOf(r) \in ConfigurationMutations
IsRead(r) == r.method = "GET"
HasExclusionStore(r) ==
    "local_exclusions_store" \in create_routes(r.method, r.path).extracts
HasSaveLock(r) ==
    "configuration_save_lock" \in create_routes(r.method, r.path).extracts

\* ------------------------------------------- operations on a Configuration

SourceUrls(cfg) == { f.url : f \in cfg.filters }

\* The entries a DELETE /filters or PUT /filters body designates: the source
\* URL is the identifier of an entry.
Matching(cfg, r) == { f \in cfg.filters : f.url = r.url }

\* Outcome of a handler's validation of its request against the Configuration.
Validate(cfg, r) ==
    CASE HandlerOf(r) = "add_filter" ->
            IF r.url \in SourceUrls(cfg) THEN "Conflict" ELSE "Ok"
      [] HandlerOf(r) \in {"delete_filter", "change_filter_status"} ->
            IF Matching(cfg, r) = {} THEN "NotFound" ELSE "Ok"
      [] OTHER -> "Ok"

add_filter(cfg, r) ==
    [cfg EXCEPT !.filters = @ \cup {Filter(r.name, r.group, r.url, TRUE)}]

delete_filter(cfg, r) ==
    [cfg EXCEPT !.filters = @ \ Matching(cfg, r)]

change_filter_status(cfg, r) ==
    [cfg EXCEPT !.filters =
        (@ \ Matching(cfg, r))
        \cup { [f EXCEPT !.enabled = r.enabled] : f \in Matching(cfg, r) }]

put_custom_filters(cfg, r) == [cfg EXCEPT !.custom = r.text]

put_exclusions(cfg, r) == [cfg EXCEPT !.exclusions = r.entries]

\* The in-memory change a validated mutation makes.
Mutation(cfg, r) ==
    CASE HandlerOf(r) = "add_filter"           -> add_filter(cfg, r)
      [] HandlerOf(r) = "delete_filter"        -> delete_filter(cfg, r)
      [] HandlerOf(r) = "change_filter_status" -> change_filter_status(cfg, r)
      [] HandlerOf(r) = "put_custom_filters"   -> put_custom_filters(cfg, r)
      [] HandlerOf(r) = "put_exclusions"       -> put_exclusions(cfg, r)
      [] OTHER                                 -> cfg

\* What a read endpoint answers. The GET routes of /filters, /custom-filters
\* and /exclusions extract no shared store, so their handlers answer from
\* the Configuration; GET /blocking-enabled is handed the toggle store.
ReadBody(r, cfg, blocking_disabled) ==
    CASE HandlerOf(r) = "get_filters_configuration" -> [filters |-> cfg.filters]
      [] HandlerOf(r) = "get_custom_filters"        -> [text |-> cfg.custom]
      [] HandlerOf(r) = "get_exclusions"            -> [entries |-> cfg.exclusions]
      [] HandlerOf(r) = "get_blocking_enabled"      -> [enabled |-> ~blocking_disabled]
      [] OTHER                                      -> [none |-> TRUE]

\* ------------------------------------------------------------------- state

VARIABLES
    pc,                       \* position of each request task
    req,                      \* the request a task serves
    result,                   \* the outcome the task has determined
    body,                     \* the body of a read's answer
    snapshot,                 \* the task's pre-mutation in-memory snapshot
    configuration,            \* the in-memory Configuration
    persisted,                \* the durably saved Configuration
    local_exclusions_store,   \* LocalExclusionStore
    blocking_disabled_store,  \* BlockingDisabledStore
    configuration_save_lock,  \* holder of each tokio Mutex (0: free)
    channel,                  \* mpsc channel to the proxy engine
    engine_configuration,     \* the last Configuration the engine received
    loaded,                   \* history: the Configuration loaded at start
    saved,                    \* history: every Configuration durably saved
    sent,                     \* history: every Configuration put on the channel
    nsent,                    \* history: number of sends on the channel
    channel_commits,          \* history: commit number of each pending update
    engine_commit,            \* history: commit number of the engine's update
    commits,                  \* history: number of successful persists
    pre,                      \* history: shared state when the task began
    ticket,                   \* history: commit number / read observations
    toggle,                   \* history: number and value of the last toggle set
    response,                 \* the HTTP response each task returned
    bundle,                   \* static files: the bundled frontend directory
    api_addr,                 \* static files: the address of the API server
    served,                   \* static files: the last GET and its response
    is_open,                  \* SearchFilterList.is_open
    filters,                  \* SearchFilterList.filters
    filter_query,             \* SearchFilterList.filter_query
    loading,                  \* SearchFilterList.loading
    languages,                \* SearchFilterList.languages
    licenses,                 \* SearchFilterList.licenses
    tags,                     \* SearchFilterList.tags
    current_page,             \* SearchFilterList.current_page
    active_filters,           \* SearchFilterList.active_filters
    loads,                    \* frontend: position of each spawned loading task
    outbox,                   \* frontend: requests sent and not yet answered
    rerender,                 \* frontend: what the last update returned
    subscribed,               \* events topic: state of each websocket connection
    cursor,                   \* events topic: next position each receiver reads
    received,                 \* events topic: what each connection was sent
    stored,                   \* events topic: what each broadcast channel stored
    pubseq,                   \* events topic: number of messages published
    joined,                   \* history: pubseq when the connection subscribed
    fellBehind,               \* history: the connection was overrun by a publish
    send_result,              \* events topic: what the last Sender::send returned
    unheard                   \* history: messages published to no subscriber

vars == << pc, req, result, body, snapshot, configuration, persisted,
           local_exclusions_store, blocking_disabled_store,
           configuration_save_lock, channel, engine_configuration,
           loaded, saved, sent, nsent, channel_commits, engine_commit,
           commits, pre, ticket, toggle, response,
           bundle, api_addr, served,
           is_open, filters, filter_query, loading, languages, licenses, tags,
           current_page, active_filters, loads, outbox, rerender,
           subscribed, cursor, received, stored, pubseq, joined, fellBehind,
           unheard, send_result >>

httpVars == << pc, req, result, body, snapshot, configuration, persisted,
               local_exclusions_store, blocking_disabled_store,
               configuration_save_lock, channel, engine_configuration,
               loaded, saved, sent, nsent, channel_commits, engine_commit,
               commits, pre, ticket, toggle, response >>
staticVars == << bundle, api_addr, served >>
componentVars == << is_open, filters, filter_query, loading, languages, licenses,
                    tags, current_page, active_filters >>
frontendVars == << componentVars, loads, outbox, rerender >>
telemetryVars == << subscribed, cursor, received, stored, pubseq, joined,
                    fellBehind, unheard, send_result >>

handlerVars == << pc, req, result, body, snapshot >>
storeVars == << local_exclusions_store, blocking_disabled_store >>
engineVars == << channel, engine_configuration, sent, nsent,
                 channel_commits, engine_commit >>

StoreIds == 0..NumHandlers


NoSnapshot == [configuration |-> EmptyConfiguration, exclusions |-> {}]
NoPre == [configuration |-> EmptyConfiguration, persisted |-> EmptyConfiguration,
          nsent |-> 0, exclusions |-> {}]
NoToggle == [version |-> 0, enabled |-> TRUE]
NoTicket == [floor |-> 0, commit |-> 0, seen |-> 0, during |-> 0,
             tfloor |-> 0, tcommit |-> 0, tseen |-> NoToggle]
NoBody == [none |-> TRUE]

\* ---------------------------------------------------------------- responses

INTERNAL_SERVER_ERROR == 500
OK == 200

NoResponse == [status |-> 0, content_type |-> "", body |-> NoBody]

\* Variant: the status is chosen by the kind of error.
get_error_response_by_kind(err) ==
    [status |-> CASE err = "NotFound" -> 404
                  [] err = "Conflict" -> 409
                  [] OTHER -> INTERNAL_SERVER_ERROR,
     content_type |-> "application/json",
     body |-> [error |-> err]]

\* get_error_response: the envelope {"error": <debug text of err>} as JSON,
\* always with status 500.
get_error_response(err) ==
    [status |-> INTERNAL_SERVER_ERROR,
     content_type |-> "application/json",
     body |-> [error |-> err]]

\* The reply of a handler that did not fail.
ok_response(b) == [status |-> OK, content_type |-> "application/json", body |-> b]

\* ------------------------------------------------------------ events topic

NumConns == 2
MaxPublished == 3
BroadcastCapacity == 2

Conns == 1..NumConns
ChannelIds == 0..NumConns

\* events_route: the broadcast channel whose Sender the connection's handler
\* is handed; every connection gets a clone of the one events_sender, the
\* channel (0) the proxy engine publishes on.
events_route(c) == 0

\* Variant: a bounded queue shared with the slowest receiver: while some
\* receiver has BroadcastCapacity unread values the new value is dropped.
broadcast_send_held_by_slowest(buf, receivers, m) ==
    IF receivers = {}
    THEN [stored |-> buf, result |-> "SendError"]
    ELSE IF \E c \in receivers : cursor[c] + BroadcastCapacity <= Len(buf) + 1
         THEN [stored |-> buf, result |-> "Ok"]
         ELSE [stored |-> Append(buf, m), result |-> "Ok"]

\* tokio::sync::broadcast::Sender::send: with no live receiver the send
\* returns Err(SendError), handing the message back, and nothing is stored;
\* otherwise it returns Ok and the message takes the next position of the
\* ring, overwriting the value BroadcastCapacity places back.
broadcast_send(buf, receivers, m) ==
    IF receivers = {}
    THEN [stored |-> buf, result |-> "SendError"]
    ELSE [stored |-> Append(buf, m), result |-> "Ok"]

\* Variant: a new receiver starts at the oldest value still in the ring.
broadcast_subscribe_replaying(tail) ==
    IF tail > BroadcastCapacity THEN tail - BroadcastCapacity + 1 ELSE 1

\* Sender::subscribe: the new receiver starts after the last value sent.
broadcast_subscribe(tail) == tail + 1

\* Variant: a receive hands out a value without moving past it.
broadcast_recv_repeating(at, tail) ==
    IF at + BroadcastCapacity <= tail
    THEN [lagged |-> TRUE, next |-> tail - BroadcastCapacity + 1]
    ELSE [lagged |-> FALSE, next |-> at]

\* Receiver::recv with a value available: a receiver whose position was
\* overwritten gets Lagged and resumes at the oldest value still in the ring;
\* otherwise it gets the value at its position and moves one on.
broadcast_recv(at, tail) ==
    IF at + BroadcastCapacity <= tail
    THEN [lagged |-> TRUE, next |-> tail - BroadcastCapacity + 1]
    ELSE [lagged |-> FALSE, next |-> at + 1]

InitTelemetry ==
    /\ subscribed = [c \in Conns |-> "none"]
    /\ cursor = [c \in Conns |-> 1]
    /\ received = [c \in Conns |-> << >>]
    /\ stored = [ch \in ChannelIds |-> << >>]
    /\ pubseq = 0
    /\ joined = [c \in Conns |-> 0]
    /\ fellBehind = [c \in Conns |-> FALSE]
    /\ unheard = {}
    /\ send_result = "none"

\* ------------------------------------------------------ static file server

\* File contents as a sequence of text pieces; the placeholder is one piece.
API_HOST_PLACEHOLDER == "{#api_host#}"
Pieces == {"<p>", API_HOST_PLACEHOLDER}
MaxPieces == 2

RECURSIVE ContentsUpTo(_)
ContentsUpTo(n) ==
    IF n = 0 THEN { << >> }
    ELSE ContentsUpTo(n - 1)
         \cup { Append(c, x) : c \in { d \in ContentsUpTo(n - 1) : Len(d) = n - 1 },
                               x \in Pieces }

Contents == ContentsUpTo(MaxPieces)

Absent == << "<absent>" >>
ApiAddrs == {"127.0.0.1:8200", "[::1]:8200"}
Tails == {"", "index.html", "app.js", "missing.js", "assets"}

\* WEBAPP_FRONTEND_DIR: index.html is always bundled, app.js may be.
Bundles ==
    { [t \in Tails |-> CASE t = "index.html" -> i
                          [] t = "app.js" -> a
                          [] OTHER -> Absent] :
        i \in Contents, a \in Contents \cup {Absent} }

\* Dir::get_file: the contents of the bundled file at that path, if any.
get_file(dir, path) == dir[path]

\* str::replace over the pieces of a text.
replace(text, from, to) ==
    [i \in 1..Len(text) |-> IF text[i] = from THEN to ELSE text[i]]

\* mime_guess::from_path(..).first_raw().unwrap_or("")
mime_guess(path) ==
    CASE path = "index.html" -> "text/html"
      [] path \in {"app.js", "missing.js"} -> "application/javascript"
      [] OTHER -> ""

\* Variant: a path with no bundled file gets index.html as it is bundled.
static_file_response_raw_fallback(dir, addr, tail_str) ==
    LET file == get_file(dir, tail_str)
        is_index == tail_str = "index.html"
        file_contents == IF file # Absent THEN file
                         ELSE get_file(dir, "index.html")
    IN  [content_type |-> mime_guess(tail_str),
         body |-> IF is_index
                  THEN replace(file_contents, API_HOST_PLACEHOLDER, addr)
                  ELSE file_contents]

\* The closure of start_web_gui_static_files_server: the response to
\* GET /<tail_str>.
static_file_response(dir, addr, tail_str) ==
    LET file == get_file(dir, tail_str)
        is_index == tail_str = "index.html" \/ file = Absent
        file_contents == IF file # Absent THEN file
                         ELSE get_file(dir, "index.html")
    IN  [content_type |-> mime_guess(tail_str),
         body |-> IF is_index
                  THEN replace(file_contents, API_HOST_PLACEHOLDER, addr)
                  ELSE file_contents]

NoServed == [tail |-> "<none>", content_type |-> "", body |-> << >>]

\* The static file server while nobody asks it anything.
StaticIdle ==
    /\ bundle = [t \in Tails |-> IF t = "index.html"
                                 THEN << API_HOST_PLACEHOLDER >> ELSE Absent]
    /\ api_addr = "127.0.0.1:8200"
    /\ served = NoServed

\* ------------------------------------------------ SearchFilterList component

\* results_per_page: 10 in create.
results_per_page == 10

\* Number of catalogue-loading tasks a behaviour spawns.
MaxLoads == 2

\* Number of add/remove requests awaiting their response at a time.
MaxRequests == 2

Queries == {"", "EASY", "zz"}

\* The characters of the names and queries the model uses.
Spelling(s) ==
    CASE s = "EasyList" -> << "E", "a", "s", "y", "L", "i", "s", "t" >> 
      [] s = "Peter" -> << "P", "e", "t", "e", "r" >> 
      [] s = "Broken" -> << "B", "r", "o", "k", "e", "n" >> 
      [] s = "List04" -> << "L", "i", "s", "t", "0", "4" >> 
      [] s = "List05" -> << "L", "i", "s", "t", "0", "5" >> 
      [] s = "List06" -> << "L", "i", "s", "t", "0", "6" >> 
      [] s = "List07" -> << "L", "i", "s", "t", "0", "7" >> 
      [] s = "List08" -> << "L", "i", "s", "t", "0", "8" >> 
      [] s = "List09" -> << "L", "i", "s", "t", "0", "9" >> 
      [] s = "List10" -> << "L", "i", "s", "t", "1", "0" >> 
      [] s = "List11" -> << "L", "i", "s", "t", "1", "1" >> 
      [] s = "List12" -> << "L", "i", "s", "t", "1", "2" >> 
      [] s = "EASY" -> << "E", "A", "S", "Y" >> 
      [] s = "zz" -> << "z", "z" >>
      [] OTHER -> << >>

\* char::to_lowercase on those characters.
Lower(c) ==
    CASE c = "A" -> "a" 
      [] c = "B" -> "b" 
      [] c = "E" -> "e" 
      [] c = "L" -> "l" 
      [] c = "P" -> "p" 
      [] c = "S" -> "s" 
      [] c = "Y" -> "y"
      [] OTHER -> c

\* str::to_lowercase
to_lowercase(text) == [i \in 1..Len(text) |-> Lower(text[i])]

\* str::contains: the needle occurs at some offset of the text.
contains(text, needle) ==
    \E k \in 0..Len(text) :
        /\ k + Len(needle) <= Len(text)
        /\ \A i \in 1..Len(needle) : text[k + i] = needle[i]

FillerNames == << "List04", "List05", "List06", "List07", "List08", "List09", "List10", "List11", "List12" >>

\* What FiltersLoaded carries: the catalogue of filterlists.com, the three
\* rows of Catalogue first.
CatalogueList ==
    << CHOOSE f \in Catalogue : f.name = "EasyList",
       CHOOSE f \in Catalogue : f.name = "Peter",
       CHOOSE f \in Catalogue : f.name = "Broken" >>
    \o [i \in 1..Len(FillerNames) |->
          [name |-> FillerNames[i], primary_view_url |-> "https://b/",
           tag_ids |-> {}]]

LoadedLanguages == << [id |-> 1, name |-> "English"] >>
LoadedLicenses == << [id |-> 1, name |-> "GPL"] >>

\* crate::filters::Filter::new(title, group, url)
FrontendFilter(title, group, url) == [title |-> title, group |-> group, url |-> url]

\* The filter_configuration property: the filters the server reported.
Props(cfg) ==
    IF cfg.filters = {} THEN << >>
    ELSE LET f == CHOOSE g \in cfg.filters : TRUE
         IN  << FrontendFilter(f.name, f.group, f.url) >>

\* NextPage: (self.filters.len() as f64 / self.results_per_page as f64).ceil()
NextPageLimit(fs) ==
    (Len(fs) + results_per_page - 1) \div results_per_page

\* view: filtered_filters
filtered_filters(fs, query) ==
    SelectSeq(fs, LAMBDA f :
        contains(to_lowercase(Spelling(f.name)), to_lowercase(Spelling(query))))

\* view: total_pages
total_pages(fs, query) ==
    (Len(filtered_filters(fs, query)) + results_per_page - 1) \div results_per_page

\* view: paginated_filters = filtered_filters.skip(start_index).take(..)
paginated_filters(fs, query, page) ==
    LET shown == filtered_filters(fs, query)
        start_index == (page - 1) * results_per_page
        last == IF start_index + results_per_page < Len(shown)
                THEN start_index + results_per_page ELSE Len(shown)
    IN  SubSeq(shown, start_index + 1, last)

\* view_filter_row: existing_filter
existing_filter(active, filter) ==
    \E i \in 1..Len(active) : active[i].title = filter.name

\* create: the component as constructed from its properties.
create(props) ==
    /\ is_open = FALSE
    /\ filters = << >>
    /\ languages = << >>
    /\ licenses = << >>
    /\ tags = << >>
    /\ filter_query = ""
    /\ loading = TRUE
    /\ current_page = 1
    /\ active_filters = props
    /\ loads = << >>
    /\ outbox = << >>
    /\ rerender = FALSE

InitServerFrom(configurations) ==
    /\ InitTelemetry
    /\ pc = [h \in Handlers |-> "idle"]
    /\ req = [h \in Handlers |-> NoRequest]
    /\ result = [h \in Handlers |-> "none"]
    /\ body = [h \in Handlers |-> NoBody]
    /\ snapshot = [h \in Handlers |-> NoSnapshot]
    /\ loaded \in configurations
    /\ configuration = loaded
    /\ persisted = loaded
    /\ local_exclusions_store = loaded.exclusions
    /\ blocking_disabled_store = [i \in StoreIds |-> FALSE]
    /\ toggle = NoToggle
    /\ response = [h \in Handlers |-> NoResponse]
    /\ configuration_save_lock = [l \in LockIds |-> 0]
    /\ channel = << >>
    /\ engine_configuration = loaded
    /\ saved = {loaded}
    /\ sent = {}
    /\ nsent = 0
    /\ channel_commits = << >>
    /\ engine_commit = 0
    /\ commits = 0
    /\ pre = [h \in Handlers |-> NoPre]
    /\ ticket = [h \in Handlers |-> NoTicket]

InitServer == InitServerFrom(LoadedConfigurations)

Init ==
    /\ StaticIdle
    /\ create(<< >>)
    /\ InitServer

\* Variant: every request is handed a copy of the toggle store of its own.
with_blocking_disabled_store_copied(h) == h

\* with_blocking_disabled_store: the store a request's handle refers to; every
\* request gets a clone of the one BlockingDisabledStore handle (store 0).
with_blocking_disabled_store(h) == 0

HoldsLock(h) == configuration_save_lock[with_configuration_save_lock(h)] = h

\* The task that is between taking the save lock and releasing it, 0 if none.
Applying ==
    LET holders == { h \in Handlers : HoldsLock(h) }
    IN  IF holders = {} THEN 0 ELSE CHOOSE h \in holders : TRUE

\* Highest toggle version among the sets whose response has been returned.
AcknowledgedToggle ==
    LET done == { ticket[g].tcommit : g \in { k \in Handlers : pc[k] = "done" } }
    IN  CHOOSE n \in done \cup {0} : \A m \in done \cup {0} : m <= n

\* Highest commit number among the mutations whose response has been returned.
Acknowledged ==
    LET done == { ticket[g].commit : g \in { k \in Handlers : pc[k] = "done" } }
    IN  CHOOSE n \in done \cup {0} : \A m \in done \cup {0} : m <= n

\* tokio::sync::mpsc::Sender::send on the bounded channel, as the set of
\* channel contents the send can complete with: the value is queued behind the
\* pending ones when there is room, and with no room the send has no outcome
\* yet (the sender waits). A Sender cannot take out or replace a queued value.
mpsc_send_overwrite(ch, v) == { << v >> }

mpsc_send(ch, v) ==
    IF Len(ch) < ChanCapacity THEN { Append(ch, v) } ELSE {}

\* ----------------------------------------------------------------- actions

\* A client's request reaches the server and is routed to a fresh task; tasks
\* are numbered in the order they are spawned.
Accept(h, r) ==
    /\ pc[h] = "idle"
    /\ \A g \in Handlers : g < h => pc[g] # "idle"
    /\ pc' = [pc EXCEPT ![h] = "start"]
    /\ req' = [req EXCEPT ![h] = r]
    /\ ticket' = [ticket EXCEPT ![h].floor = Acknowledged,
                                ![h].tfloor = AcknowledgedToggle]
    /\ UNCHANGED << result, body, snapshot, configuration, persisted, storeVars,
                    configuration_save_lock, engineVars, loaded, saved, commits, pre >>
    /\ UNCHANGED telemetryVars
    /\ UNCHANGED toggle
    /\ UNCHANGED response
    /\ UNCHANGED staticVars
    /\ UNCHANGED frontendVars

\* configuration_save_lock.lock().await: the task takes the mutex its route
\* handed it, waiting while another task holds it.
Lock(h) ==
    /\ pc[h] = "start"
    /\ HasSaveLock(req[h])
    /\ configuration_save_lock[with_configuration_save_lock(h)] = 0
    /\ configuration_save_lock' =
          [configuration_save_lock EXCEPT ![with_configuration_save_lock(h)] = h]
    /\ pc' = [pc EXCEPT ![h] =
                 IF IsConfigurationMutation(req[h]) THEN "validate" ELSE "handle"]
    /\ pre' = [pre EXCEPT ![h] = [configuration |-> configuration,
                                  persisted |-> persisted, nsent |-> nsent,
                                  exclusions |-> local_exclusions_store]]
    /\ UNCHANGED << req, result, body, snapshot, configuration, persisted, storeVars,
                    engineVars, loaded, saved, commits, ticket >>
    /\ UNCHANGED telemetryVars
    /\ UNCHANGED toggle
    /\ UNCHANGED response
    /\ UNCHANGED staticVars
    /\ UNCHANGED frontendVars

\* A handler whose route carries no save lock starts without one.
Enter(h) ==
    /\ pc[h] = "start"
    /\ ~HasSaveLock(req[h])
    /\ pc' = [pc EXCEPT ![h] =
                 IF IsConfigurationMutation(req[h]) THEN "validate" ELSE "handle"]
    /\ pre' = [pre EXCEPT ![h] = [configuration |-> configuration,
                                  persisted |-> persisted, nsent |-> nsent,
                                  exclusions |-> local_exclusions_store]]
    /\ UNCHANGED << req, result, body, snapshot, configuration, persisted, storeVars,
                    configuration_save_lock, engineVars, loaded, saved, commits,
                    ticket >>
    /\ UNCHANGED telemetryVars
    /\ UNCHANGED toggle
    /\ UNCHANGED response
    /\ UNCHANGED staticVars
    /\ UNCHANGED frontendVars

\* Conflict / NotFound checks against the in-memory Configuration.
ValidateRequest(h) ==
    /\ pc[h] = "validate"
    /\ LET v == Validate(configuration, req[h])
       IN  IF v # "Ok"
           THEN /\ result' = [result EXCEPT ![h] = v]
                /\ pc' = [pc EXCEPT ![h] = "release"]
           ELSE /\ result' = result
                /\ pc' = [pc EXCEPT ![h] =
                            IF HandlerOf(req[h]) = "add_filter"
                            THEN "fetch" ELSE "mutate"]
    /\ UNCHANGED << req, body, snapshot, configuration, persisted, storeVars,
                    configuration_save_lock, engineVars, loaded, saved, commits,
                    pre, ticket >>
    /\ UNCHANGED telemetryVars
    /\ UNCHANGED toggle
    /\ UNCHANGED response
    /\ UNCHANGED staticVars
    /\ UNCHANGED frontendVars

\* add_filter fetches the list from source_url with the injected client.
Fetch(h, ok) ==
    /\ pc[h] = "fetch"
    /\ IF ok
       THEN /\ pc' = [pc EXCEPT ![h] = "mutate"]
            /\ result' = result
       ELSE /\ pc' = [pc EXCEPT ![h] = "release"]
            /\ result' = [result EXCEPT ![h] = "UpstreamFetchError"]
    /\ UNCHANGED << req, body, snapshot, configuration, persisted, storeVars,
                    configuration_save_lock, engineVars, loaded, saved, commits,
                    pre, ticket >>
    /\ UNCHANGED telemetryVars
    /\ UNCHANGED toggle
    /\ UNCHANGED response
    /\ UNCHANGED staticVars
    /\ UNCHANGED frontendVars

\* The in-memory mutation; put_exclusions also replaces the Exclusion Store.
Mutate(h) ==
    /\ pc[h] = "mutate"
    /\ snapshot' = [snapshot EXCEPT ![h] =
                      [configuration |-> configuration,
                       exclusions |-> local_exclusions_store]]
    /\ configuration' = Mutation(configuration, req[h])
    /\ local_exclusions_store' =
          IF HandlerOf(req[h]) = "put_exclusions" /\ HasExclusionStore(req[h])
          THEN req[h].entries ELSE local_exclusions_store
    /\ pc' = [pc EXCEPT ![h] = "persist"]
    /\ UNCHANGED << req, result, body, persisted, blocking_disabled_store,
                    configuration_save_lock, engineVars, loaded, saved, commits,
                    pre, ticket >>
    /\ UNCHANGED telemetryVars
    /\ UNCHANGED toggle
    /\ UNCHANGED response
    /\ UNCHANGED staticVars
    /\ UNCHANGED frontendVars

\* Saving the Configuration: on failure the snapshot is restored.
Persist(h, ok) ==
    /\ pc[h] = "persist"
    /\ IF ok
       THEN /\ persisted' = configuration
            /\ saved' = saved \cup {configuration}
            /\ commits' = commits + 1
            /\ ticket' = [ticket EXCEPT ![h].commit = commits + 1]
            /\ pc' = [pc EXCEPT ![h] = "notify"]
            /\ UNCHANGED << result, configuration, local_exclusions_store >>
       ELSE /\ configuration' = snapshot[h].configuration
            /\ local_exclusions_store' = snapshot[h].exclusions
            /\ result' = [result EXCEPT ![h] = "PersistenceError"]
            /\ pc' = [pc EXCEPT ![h] = "release"]
            /\ UNCHANGED << persisted, saved, commits, ticket >>
    /\ UNCHANGED << req, body, snapshot, blocking_disabled_store,
                    configuration_save_lock, engineVars, loaded, pre >>
    /\ UNCHANGED telemetryVars
    /\ UNCHANGED toggle
    /\ UNCHANGED response
    /\ UNCHANGED staticVars
    /\ UNCHANGED frontendVars

\* configuration_updater_sender.send(configuration).await on the bounded
\* mpsc channel: the send completes once the channel has room.
Notify(h) ==
    /\ pc[h] = "notify"
    /\ \E c \in mpsc_send(channel, configuration) : channel' = c
    /\ \E c \in mpsc_send(channel_commits, ticket[h].commit) : channel_commits' = c
    /\ sent' = sent \cup {configuration}
    /\ nsent' = nsent + 1
    /\ result' = [result EXCEPT ![h] = "Ok"]
    /\ pc' = [pc EXCEPT ![h] = "release"]
    /\ UNCHANGED << req, body, snapshot, configuration, persisted, storeVars,
                    configuration_save_lock, engine_configuration, engine_commit,
                    loaded, saved, commits, pre, ticket >>
    /\ UNCHANGED telemetryVars
    /\ UNCHANGED toggle
    /\ UNCHANGED response
    /\ UNCHANGED staticVars
    /\ UNCHANGED frontendVars

\* The guard is dropped: the mutex is free again.
Release(h) ==
    /\ pc[h] = "release"
    /\ configuration_save_lock' =
          [l \in LockIds |-> IF configuration_save_lock[l] = h
                             THEN 0 ELSE configuration_save_lock[l]]
    /\ pc' = [pc EXCEPT ![h] = "respond"]
    /\ UNCHANGED << req, result, body, snapshot, configuration, persisted, storeVars,
                    engineVars, loaded, saved, commits, pre, ticket >>
    /\ UNCHANGED telemetryVars
    /\ UNCHANGED toggle
    /\ UNCHANGED response
    /\ UNCHANGED staticVars
    /\ UNCHANGED frontendVars

\* A read endpoint answers from the shared state.
Read(h) ==
    /\ pc[h] = "handle"
    /\ IsRead(req[h])
    /\ body' = [body EXCEPT ![h] =
                  ReadBody(req[h], configuration,
                           blocking_disabled_store[with_blocking_disabled_store(h)])]
    /\ result' = [result EXCEPT ![h] = "Ok"]
    /\ ticket' = [ticket EXCEPT ![h].seen = commits, ![h].during = Applying,
                                ![h].tseen = toggle]
    /\ pc' = [pc EXCEPT ![h] = IF HoldsLock(h) THEN "release" ELSE "respond"]
    /\ UNCHANGED << req, snapshot, configuration, persisted, storeVars,
                    configuration_save_lock, engineVars, loaded, saved, commits, pre >>
    /\ UNCHANGED telemetryVars
    /\ UNCHANGED toggle
    /\ UNCHANGED response
    /\ UNCHANGED staticVars
    /\ UNCHANGED frontendVars

\* PUT /blocking-enabled stores the complement of `enabled`.
put_blocking_enabled(h) ==
    /\ pc[h] = "handle"
    /\ HandlerOf(req[h]) = "put_blocking_enabled"
    /\ blocking_disabled_store' =
          [blocking_disabled_store EXCEPT
              ![with_blocking_disabled_store(h)] = ~req[h].enabled]
    /\ toggle' = [version |-> toggle.version + 1, enabled |-> req[h].enabled]
    /\ ticket' = [ticket EXCEPT ![h].tcommit = toggle.version + 1]
    /\ result' = [result EXCEPT ![h] = "Ok"]
    /\ pc' = [pc EXCEPT ![h] = IF HoldsLock(h) THEN "release" ELSE "respond"]
    /\ UNCHANGED << req, body, snapshot, configuration, persisted,
                    local_exclusions_store, configuration_save_lock, engineVars,
                    loaded, saved, commits, pre >>
    /\ UNCHANGED telemetryVars
    /\ UNCHANGED response
    /\ UNCHANGED staticVars
    /\ UNCHANGED frontendVars

\* The HTTP response is returned to the client and the task's locals are gone.
Respond(h) ==
    /\ pc[h] = "respond"
    /\ pc' = [pc EXCEPT ![h] = "done"]
    /\ snapshot' = [snapshot EXCEPT ![h] = NoSnapshot]
    /\ response' = [response EXCEPT ![h] =
                      IF result[h] = "Ok"
                      THEN ok_response(body[h])
                      ELSE get_error_response(result[h])]
    /\ UNCHANGED << req, result, body, configuration, persisted, storeVars,
                    configuration_save_lock, engineVars, loaded, saved, commits,
                    pre, ticket >>
    /\ UNCHANGED telemetryVars
    /\ UNCHANGED toggle
    /\ UNCHANGED staticVars
    /\ UNCHANGED frontendVars

\* The proxy engine takes the next Configuration off the channel.
EngineReceive ==
    /\ channel # << >>
    /\ engine_configuration' = Head(channel)
    /\ channel' = Tail(channel)
    /\ engine_commit' = Head(channel_commits)
    /\ channel_commits' = Tail(channel_commits)
    /\ UNCHANGED << handlerVars, configuration, persisted, storeVars,
                    configuration_save_lock, sent, nsent, loaded, saved, commits,
                    pre, ticket >>
    /\ UNCHANGED telemetryVars
    /\ UNCHANGED toggle
    /\ UNCHANGED response
    /\ UNCHANGED staticVars
    /\ UNCHANGED frontendVars

LockedStates == {"validate", "fetch", "mutate", "persist", "notify", "release"}

\* A task is suspended in its send: the channel is full.
WaitsToNotify(h) == pc[h] = "notify" /\ mpsc_send(channel, configuration) = {}

\* ------------------------------------------------------- client disconnects

\* The places where a handler is suspended in an await: waiting for the save
\* lock, the list fetch and the persistence I/O, and the asynchronous send of
\* the mpsc Sender while the channel is full.
Suspended(h) ==
    \/ pc[h] = "start" /\ HasSaveLock(req[h])
    \/ pc[h] \in {"fetch", "persist"}
    \/ WaitsToNotify(h)

\* The client closes its connection while its handler is suspended. The
\* handler runs inside the connection's future, which warp::serve drops with
\* the connection: the handler never resumes, and dropping it drops its lock
\* guard and its locals. A write that was in flight may or may not land.
ClientDisconnect(h, landed) ==
    /\ Suspended(h)
    /\ landed => pc[h] = "persist"
    /\ pc' = [pc EXCEPT ![h] =
                 IF pc[h] \in LockedStates THEN "abandoned" ELSE "gone"]
    /\ configuration_save_lock' =
          [l \in LockIds |-> IF configuration_save_lock[l] = h
                             THEN 0 ELSE configuration_save_lock[l]]
    /\ snapshot' = [snapshot EXCEPT ![h] = NoSnapshot]
    /\ IF landed
       THEN /\ persisted' = configuration
            /\ saved' = saved \cup {configuration}
            /\ commits' = commits + 1
            /\ ticket' = [ticket EXCEPT ![h].commit = commits + 1]
       ELSE UNCHANGED << persisted, saved, commits, ticket >>
    /\ UNCHANGED << req, result, body, configuration, storeVars, engineVars,
                    loaded, pre >>
    /\ UNCHANGED telemetryVars
    /\ UNCHANGED toggle
    /\ UNCHANGED response
    /\ UNCHANGED staticVars
    /\ UNCHANGED frontendVars

Next ==
    \/ \E h \in Handlers, r \in Requests : Accept(h, r)
    \/ \E h \in Handlers : Lock(h)
    \/ \E h \in Handlers : Enter(h)
    \/ \E h \in Handlers : ValidateRequest(h)
    \/ \E h \in Handlers, ok \in BOOLEAN : Fetch(h, ok)
    \/ \E h \in Handlers : Mutate(h)
    \/ \E h \in Handlers, ok \in BOOLEAN : Persist(h, ok)
    \/ \E h \in Handlers : Notify(h)
    \/ \E h \in Handlers : Release(h)
    \/ \E h \in Handlers : Read(h)
    \/ \E h \in Handlers : put_blocking_enabled(h)
    \/ \E h \in Handlers : Respond(h)
    \/ \E h \in Handlers, landed \in BOOLEAN : ClientDisconnect(h, landed)
    \/ EngineReceive

Spec == Init /\ [][Next]_vars

\* ---------------------------------------------------- events topic: actions

Subscribers == { c \in Conns : subscribed[c] = "open" }

\* The live receivers of a broadcast channel.
Receivers(ch) == { c \in Subscribers : events_route(c) = ch }

\* The last position written on the channel a connection listens to.
TailOf(c) == Len(stored[events_route(c)])

\* A websocket connection is upgraded and its handler subscribes.
Subscribe(c) ==
    /\ subscribed[c] = "none"
    /\ \A d \in Conns : d < c => subscribed[d] # "none"
    /\ subscribed' = [subscribed EXCEPT ![c] = "open"]
    /\ cursor' = [cursor EXCEPT ![c] = broadcast_subscribe(TailOf(c))]
    /\ joined' = [joined EXCEPT ![c] = pubseq]
    /\ UNCHANGED << received, stored, pubseq, fellBehind, unheard, send_result >>
    /\ UNCHANGED httpVars
    /\ UNCHANGED staticVars
    /\ UNCHANGED frontendVars

\* The proxy engine publishes the next event: events_sender.send(event).
Publish ==
    /\ pubseq < MaxPublished
    /\ pubseq' = pubseq + 1
    /\ LET sending == broadcast_send(stored[0], Receivers(0), pubseq + 1)
       IN  /\ stored' = [stored EXCEPT ![0] = sending.stored]
           /\ send_result' = sending.result
    /\ unheard' = IF Subscribers = {} THEN unheard \cup {pubseq + 1} ELSE unheard
    /\ fellBehind' =
          [c \in Conns |->
              \/ fellBehind[c]
              \/ /\ subscribed[c] = "open"
                 /\ cursor[c] + BroadcastCapacity <= Len(stored'[events_route(c)])]
    /\ UNCHANGED << subscribed, cursor, received, joined >>
    /\ UNCHANGED httpVars
    /\ UNCHANGED staticVars
    /\ UNCHANGED frontendVars

\* The connection's handler takes the next event and writes it to the
\* websocket. A receiver that was overrun loses its oldest unread events and
\* then either carries on or closes the connection.
Recv(c, close) ==
    /\ subscribed[c] = "open"
    /\ cursor[c] <= TailOf(c)
    /\ LET r == broadcast_recv(cursor[c], TailOf(c))
       IN  /\ cursor' = [cursor EXCEPT ![c] = r.next]
           /\ IF r.lagged
              THEN /\ subscribed' =
                        [subscribed EXCEPT ![c] = IF close THEN "closed" ELSE "open"]
                   /\ received' = received
              ELSE /\ ~close
                   /\ subscribed' = subscribed
                   /\ received' =
                        [received EXCEPT
                            ![c] = Append(@, stored[events_route(c)][cursor[c]])]
    /\ UNCHANGED << stored, pubseq, joined, fellBehind, unheard, send_result >>
    /\ UNCHANGED httpVars
    /\ UNCHANGED staticVars
    /\ UNCHANGED frontendVars

\* The client closes the websocket: its receiver is dropped.
Close(c) ==
    /\ subscribed[c] = "open"
    /\ subscribed' = [subscribed EXCEPT ![c] = "closed"]
    /\ UNCHANGED << cursor, received, stored, pubseq, joined, fellBehind, unheard,
                    send_result >>
    /\ UNCHANGED httpVars
    /\ UNCHANGED staticVars
    /\ UNCHANGED frontendVars

TelemetryNext ==
    \/ \E c \in Conns : Subscribe(c)
    \/ Publish
    \/ \E c \in Conns, close \in BOOLEAN : Recv(c, close)
    \/ \E c \in Conns : Close(c)

\* The events topic on its own: it shares no state with the HTTP handlers.
TelemetrySpec == Init /\ [][TelemetryNext]_vars

\* =================================================================== claims

\* A task is in the Locked(applying) state of the mutation pipeline.
Locked(h) == IsConfigurationMutation(req[h]) /\ pc[h] \in LockedStates

AtRelease(h) == pc[h] = "release"

\* The shared state is what it was when task h began.
Untouched(h) ==
    /\ configuration = pre[h].configuration
    /\ persisted = pre[h].persisted
    /\ nsent = pre[h].nsent

\* C1: in every reachable state at most one configuration mutation is in the
\* Locked(applying) state, however the request tasks interleave.
C1_OneMutationLocked ==
    Cardinality({ h \in Handlers : Locked(h) }) <= 1

\* C1 witness: one mutation is applying while another waits for the lock.
C1_Witness ==
    \E h, g \in Handlers :
        /\ h # g
        /\ Locked(h) /\ pc[h] = "persist"
        /\ IsConfigurationMutation(req[g]) /\ pc[g] = "start"

\* Sequential semantics of one mutation with a given outcome: the next
\* Configuration, or Invalid when a serial execution cannot give that outcome.
Invalid == [filters |-> {}, custom |-> "<invalid>", exclusions |-> {}]

SerialStep(cfg, r, res) ==
    IF cfg = Invalid THEN Invalid
    ELSE IF Validate(cfg, r) # "Ok"
         THEN IF res = Validate(cfg, r) THEN cfg ELSE Invalid
    ELSE IF res = "Ok" THEN Mutation(cfg, r)
    ELSE IF res = "PersistenceError" THEN cfg
    ELSE IF res = "UpstreamFetchError" /\ HandlerOf(r) = "add_filter" THEN cfg
    ELSE Invalid

RECURSIVE SerialRun(_, _, _)
SerialRun(cfg, order, i) ==
    IF i > Len(order) THEN cfg
    ELSE SerialRun(SerialStep(cfg, req[order[i]], result[order[i]]), order, i + 1)

Orders(S) ==
    { o \in [1..Cardinality(S) -> S] : \A i, j \in 1..Cardinality(S) :
                                          i # j => o[i] # o[j] }

Completed == { h \in Handlers : pc[h] = "done" /\ IsConfigurationMutation(req[h]) }

AllDone == \A h \in Handlers : pc[h] = "done"

\* C2: once all requests have completed, the persisted Configuration is the
\* result of applying the mutations, with the outcomes they reported, one
\* after another in some total order starting from the loaded Configuration.
C2_Serializable ==
    AllDone =>
        \E o \in Orders(Completed) :
            /\ SerialRun(loaded, o, 1) # Invalid
            /\ SerialRun(loaded, o, 1) = persisted
            /\ configuration = persisted

\* C2 witness: two different writes of the same field both succeeded, the
\* second task spawned committing first.
C2_Witness ==
    /\ AllDone
    /\ \E h, g \in Handlers :
        /\ h # g
        /\ HandlerOf(req[h]) = "put_custom_filters"
        /\ HandlerOf(req[g]) = "put_custom_filters"
        /\ req[h].text # req[g].text
        /\ result[h] = "Ok" /\ result[g] = "Ok"
        /\ h < g
        /\ ticket[h].commit = 2 /\ ticket[g].commit = 1

UniqueSourceUrls(cfg) ==
    \A f, g \in cfg.filters : f.url = g.url => f = g

\* C3: no two filter entries of the in-memory or of the persisted
\* Configuration have the same source URL.
C3_UniqueSourceUrls ==
    UniqueSourceUrls(configuration) /\ UniqueSourceUrls(persisted)

\* C3 witness: two adds of one source URL under different names ran
\* concurrently and the Configuration holds two entries.
C3_Witness ==
    \E h, g \in Handlers :
        /\ h # g
        /\ HandlerOf(req[h]) = "add_filter" /\ HandlerOf(req[g]) = "add_filter"
        /\ req[h].url = req[g].url /\ req[h].name # req[g].name
        /\ pc[h] = "done" /\ result[h] = "Ok"
        /\ pc[g] = "release" /\ result[g] = "Conflict"
        /\ Cardinality(persisted.filters) = 2

\* C4: when persisting fails after the in-memory mutation, the task ends with
\* PersistenceError, the in-memory Configuration is back to its pre-mutation
\* value, nothing was saved or sent; and every Configuration ever sent to the
\* engine is one that was durably saved.
C4_PersistenceFailureRollsBack ==
    /\ \A h \in Handlers :
          AtRelease(h) /\ result[h] = "PersistenceError" =>
              /\ Untouched(h)
              /\ local_exclusions_store = pre[h].configuration.exclusions
    /\ sent \subseteq saved

\* C4 witness: a mutation that changed the in-memory Configuration failed to
\* persist, after an earlier mutation had been saved and sent.
C4_Witness ==
    \E h \in Handlers :
        /\ AtRelease(h) /\ result[h] = "PersistenceError"
        /\ Mutation(pre[h].configuration, req[h]) # pre[h].configuration
        /\ sent # {}

\* Between a handler's first step and the release of its guard.
ProcessingStates == LockedStates \cup {"handle"}

\* C5 as stated: every endpoint that mutates (PUT/POST/DELETE /filters,
\* PUT /custom-filters, PUT /exclusions, PUT /blocking-enabled) holds the
\* save lock throughout its processing.
C5_EveryMutationEndpointHoldsLock ==
    \A h \in Handlers :
        req[h].method \in {"PUT", "POST", "DELETE"} /\ pc[h] \in ProcessingStates
            => HoldsLock(h)

\* C5 amended: the configuration mutations (PUT/POST/DELETE /filters,
\* PUT /custom-filters, PUT /exclusions) hold the save lock from their first
\* step until their guard is released; PUT /blocking-enabled is handed no
\* save lock and never holds one.
C5_ConfigurationMutationsHoldLock ==
    \A h \in Handlers :
        /\ IsConfigurationMutation(req[h]) /\ pc[h] \in ProcessingStates
              => HoldsLock(h)
        /\ HandlerOf(req[h]) = "put_blocking_enabled"
              => \A l \in LockIds : configuration_save_lock[l] # h

\* C5 witness: PUT /blocking-enabled is being handled while a configuration
\* mutation holds the save lock.
C5_Witness ==
    \E h, g \in Handlers :
        /\ HandlerOf(req[h]) = "put_blocking_enabled" /\ pc[h] = "handle"
        /\ HandlerOf(req[g]) = "put_custom_filters" /\ pc[g] = "persist"
        /\ HoldsLock(g)

\* C6: add_filter with a source URL already present ends with Conflict and
\* leaves the filter set, the persisted Configuration and the engine channel
\* as they were; add_filter that succeeds had a new source URL and adds
\* exactly one entry, with enabled = TRUE.
C6_AddFilterConflictOrOneEntry ==
    \A h \in Handlers :
        AtRelease(h) /\ HandlerOf(req[h]) = "add_filter" =>
            /\ (req[h].url \in SourceUrls(pre[h].configuration))
                  = (result[h] = "Conflict")
            /\ result[h] = "Conflict" => Untouched(h)
            /\ result[h] = "Ok" =>
                  /\ configuration.filters =
                        pre[h].configuration.filters
                        \cup {Filter(req[h].name, req[h].group, req[h].url, TRUE)}
                  /\ Cardinality(configuration.filters) =
                        Cardinality(pre[h].configuration.filters) + 1
                  /\ persisted = configuration

\* C6 witness: the same POST is repeated; the first succeeded, the second
\* ends with Conflict.
C6_Witness ==
    \E h, g \in Handlers :
        /\ h # g /\ req[h] = req[g] /\ HandlerOf(req[h]) = "add_filter"
        /\ pc[g] = "done" /\ result[g] = "Ok"
        /\ AtRelease(h) /\ result[h] = "Conflict"

\* C7: when the fetch of add_filter fails the task ends with
\* UpstreamFetchError and the in-memory Configuration, the persisted
\* Configuration and the engine channel are as they were when it began.
C7_FetchFailureChangesNothing ==
    \A h \in Handlers :
        AtRelease(h) /\ result[h] = "UpstreamFetchError" =>
            /\ HandlerOf(req[h]) = "add_filter"
            /\ Untouched(h)
            /\ req[h].url \notin SourceUrls(configuration)

\* C7 witness: a fetch failed while another mutation was waiting for the lock.
C7_Witness ==
    \E h, g \in Handlers :
        /\ h # g
        /\ AtRelease(h) /\ result[h] = "UpstreamFetchError"
        /\ IsConfigurationMutation(req[g]) /\ pc[g] = "start"

\* C8: change_filter_status and delete_filter on an identifier that matches
\* no entry end with NotFound, with nothing changed, saved or sent; they end
\* with NotFound in no other case.
C8_UnknownFilterNotFound ==
    \A h \in Handlers :
        (AtRelease(h)
         /\ HandlerOf(req[h]) \in {"change_filter_status", "delete_filter"}) =>
            /\ (Matching(pre[h].configuration, req[h]) = {})
                  = (result[h] = "NotFound")
            /\ result[h] = "NotFound" => Untouched(h)

\* C8 witness: a delete_filter and a change_filter_status both ended NotFound.
C8_Witness ==
    \E h, g \in Handlers :
        /\ HandlerOf(req[h]) = "delete_filter"
        /\ AtRelease(h) /\ result[h] = "NotFound"
        /\ HandlerOf(req[g]) = "change_filter_status"
        /\ pc[g] = "done" /\ result[g] = "NotFound"

\* Task g began on exactly the Configuration that the successful add of
\* task h had left.
DeleteFollowsAdd(h, g) ==
    /\ h # g
    /\ HandlerOf(req[h]) = "add_filter" /\ pc[h] = "done" /\ result[h] = "Ok"
    /\ HandlerOf(req[g]) = "delete_filter" /\ AtRelease(g)
    /\ req[h].url \notin SourceUrls(pre[h].configuration)
    /\ pre[g].configuration = Mutation(pre[h].configuration, req[h])

\* The POST and the DELETE are the ones the component sends for one catalogue row.
SameCatalogueRow(h, g) ==
    \E f \in Catalogue, loaded_tags \in {LoadedTags, << >>} :
        /\ req[h] \in AddFilterMessage(loaded_tags, f)
        /\ req[g] \in RemoveFilterMessage(f)

\* C9: a successful add_filter with a new source URL followed by a
\* delete_filter with the same source URL does not end NotFound and, when it
\* succeeds, leaves the filter set that preceded the add; this covers the
\* DELETE the frontend sends for the row it added (group fixed to Malware).
C9_AddThenDeleteRestores ==
    \A h, g \in Handlers :
        DeleteFollowsAdd(h, g) /\ (req[h].url = req[g].url \/ SameCatalogueRow(h, g)) =>
            /\ result[g] \in {"Ok", "PersistenceError"}
            /\ result[g] = "Ok" =>
                  /\ configuration.filters = pre[h].configuration.filters
                  /\ persisted.filters = pre[h].configuration.filters
            /\ result[g] = "PersistenceError" =>
                  configuration.filters = pre[g].configuration.filters

\* C9 witness: the frontend added the row whose URL is normalised by the
\* parse, with a group other than Malware, to a non-empty filter set, and its
\* DELETE for that row has succeeded.
C9_Witness ==
    \E h, g \in Handlers :
        /\ DeleteFollowsAdd(h, g) /\ SameCatalogueRow(h, g)
        /\ req[h].url = "https://a/" /\ req[h].group = "Ads"
        /\ req[g].group = "Malware"
        /\ pre[h].configuration.filters # {}
        /\ result[g] = "Ok"

\* The effect of a successful mutation r as a read of the same path shows it.
Observes(r, b) ==
    CASE HandlerOf(r) = "add_filter" ->
            b = [filters |-> b.filters]
            /\ Filter(r.name, r.group, r.url, TRUE) \in b.filters
      [] HandlerOf(r) = "delete_filter" ->
            b = [filters |-> b.filters]
            /\ \A f \in b.filters : f.url # r.url
      [] HandlerOf(r) = "change_filter_status" ->
            b = [filters |-> b.filters]
            /\ \A f \in b.filters : f.url = r.url => f.enabled = r.enabled
      [] HandlerOf(r) = "put_custom_filters" -> b = [text |-> r.text]
      [] HandlerOf(r) = "put_exclusions" -> b = [entries |-> r.entries]
      [] OTHER -> TRUE

\* A read task r was accepted after the response of mutation task h.
ReadAfterResponse(h, r) ==
    /\ IsConfigurationMutation(req[h]) /\ pc[h] = "done" /\ result[h] = "Ok"
    /\ IsRead(req[r]) /\ req[r].path = req[h].path
    /\ pc[r] \in {"respond", "done"}
    /\ ticket[r].floor >= ticket[h].commit

\* No other mutation of the same path has been issued.
OnlyMutationOfPath(h) ==
    \A k \in Handlers \ {h} :
        ~(IsConfigurationMutation(req[k]) /\ req[k].path = req[h].path)

\* C10: a successful mutation has persisted and released the save lock by the
\* time its response is returned, and a read of the same path accepted after
\* that response shows the mutation's effect.
C10_ReadAfterResponseObserves ==
    /\ \A h \in Handlers :
          (IsConfigurationMutation(req[h]) /\ pc[h] \in {"respond", "done"}
           /\ result[h] = "Ok") =>
              /\ ~HoldsLock(h)
              /\ ticket[h].commit \in 1..commits
              /\ Mutation(pre[h].configuration, req[h]) \in saved
    /\ \A h, r \in Handlers :
          ReadAfterResponse(h, r) =>
              /\ ticket[r].seen >= ticket[h].commit
              /\ OnlyMutationOfPath(h) => Observes(req[h], body[r])

\* C10 witness: GET /exclusions, accepted after the response of a successful
\* PUT /exclusions that changed the set, has answered.
C10_Witness ==
    \E h, r \in Handlers :
        /\ ReadAfterResponse(h, r)
        /\ HandlerOf(req[h]) = "put_exclusions"
        /\ req[h].entries # loaded.exclusions
        /\ pc[r] = "done"


\* ------------------------------------------------------------ engine channel

\* C11 as stated: at most one update is pending, and a mutation that notifies
\* completes its send at once, leaving exactly its own update pending in place
\* of whatever was there (it never waits for the engine under the save lock).
C11_PendingIsOverwritten ==
    /\ Len(channel) <= 1
    /\ \A h \in Handlers :
          pc[h] = "notify" =>
              mpsc_send(channel, configuration) = { << configuration >> }

\* C11 (amended): at most ChanCapacity updates are pending and a pending update
\* is never overwritten or discarded by a later notification: it leaves the
\* channel only by the engine receiving it, and a newer update is queued only
\* when there is room, behind whatever is pending.
C11_PendingIsKept ==
    /\ [](Len(channel) <= ChanCapacity)
    /\ [][channel' # channel =>
             \/ /\ channel # << >>
                /\ channel' = Tail(channel)
                /\ engine_configuration' = Head(channel)
             \/ /\ Len(channel) < ChanCapacity
                /\ channel' = Append(channel, configuration)]_vars

\* C11 witness: a mutation has reached its notification while an older update,
\* different from its own, is still pending on the full channel.
C11_Witness ==
    \E h \in Handlers :
        /\ pc[h] = "notify"
        /\ Len(channel) = ChanCapacity
        /\ Head(channel) # configuration


\* No request is being handled: every task has answered, was dropped with its
\* connection, or has not been given a request.
Quiet == \A h \in Handlers : pc[h] \in {"idle", "done", "abandoned", "gone"}

\* C12: once the last mutation has completed and the engine has consumed its
\* channel, the engine holds the final persisted Configuration; and it never
\* receives an older Configuration after a newer one: every pending update is
\* newer than the one the engine holds, in commit order.
C12_EngineGetsFinalConfiguration ==
    /\ (Quiet /\ channel = << >>) => engine_configuration = persisted
    /\ \A i \in 1..Len(channel_commits) :
          /\ engine_commit < channel_commits[i]
          /\ \A j \in 1..Len(channel_commits) :
                i < j => channel_commits[i] < channel_commits[j]


\* ------------------------------------------------------- client disconnects

\* C13: a mutation that has acquired the save lock is never abandoned, so
\* whenever no mutation is in the Locked state the in-memory Configuration is
\* the persisted one and every persisted update has been sent to the engine.
C13_MutationRunsToCompletion ==
    /\ \A h \in Handlers : pc[h] # "abandoned"
    /\ (\A h \in Handlers : ~Locked(h)) =>
           /\ configuration = persisted
           /\ nsent = commits


\* --------------------------------------------------- reads and the save lock

\* The answers a read r can give from the Configuration before and after the
\* mutation of task m.
AroundMutation(r, m) ==
    { ReadBody(r, pre[m].configuration, FALSE),
      ReadBody(r, Mutation(pre[m].configuration, req[m]), FALSE) }

\* C14: no read endpoint is handed, holds or waits for the save lock; a read
\* that ran while a mutation was in the Locked state answered with the value
\* from before or from after that mutation's change, nothing in between
\* (GET /blocking-enabled answers from the toggle store, which no mutation
\* of the Configuration touches).
C14_ReadsNeverTakeTheLock ==
    \A h \in Handlers :
        (pc[h] # "idle" /\ IsRead(req[h])) =>
            /\ ~HasSaveLock(req[h])
            /\ ~HoldsLock(h)
            /\ pc[h] = "start" => ENABLED Enter(h)
            /\ (pc[h] \in {"respond", "done"} /\ ticket[h].during # 0
                    /\ HandlerOf(req[h]) # "get_blocking_enabled"
                    /\ IsConfigurationMutation(req[ticket[h].during])) =>
                   body[h] \in AroundMutation(req[h], ticket[h].during)

\* C14 witness: GET /filters has been answered while POST /filters is still
\* suspended in its fetch, holding the save lock.
C14_Witness ==
    \E h, m \in Handlers :
        /\ pc[h] = "done" /\ HandlerOf(req[h]) = "get_filters_configuration"
        /\ ticket[h].during = m
        /\ pc[m] = "fetch" /\ HoldsLock(m)
        /\ body[h] = [filters |-> pre[m].configuration.filters]


\* ------------------------------------------------------------- events topic

\* The messages published since connection c subscribed.
PublishedSince(c) == (joined[c] + 1)..pubseq

\* The messages connection c has been sent.
Heard(c) == { received[c][i] : i \in 1..Len(received[c]) }

\* The messages connection c can still receive: those at or after its
\* position that the ring has not overwritten.
Readable(c) ==
    LET buf == stored[events_route(c)]
        oldest == IF Len(buf) > BroadcastCapacity
                  THEN Len(buf) - BroadcastCapacity + 1 ELSE 1
        from == IF cursor[c] > oldest THEN cursor[c] ELSE oldest
    IN  { buf[p] : p \in from..Len(buf) }

\* The messages published since c subscribed that c can no longer get.
Missed(c) == PublishedSince(c) \ (Heard(c) \cup Readable(c))

\* C15 as stated: every message published while a connection is subscribed
\* has reached it or is still on its way, and a connection is sent only
\* messages published after it subscribed.
C15_DeliveredToEverySubscriber ==
    \A c \in Subscribers :
        /\ Missed(c) = {}
        /\ Heard(c) \subseteq PublishedSince(c)

\* C15 (amended): a message published while a connection is subscribed has
\* reached it or is still on its way unless the connection fell more than
\* BroadcastCapacity messages behind, and a connection is sent only messages
\* published after it subscribed.
C15_DeliveredUnlessOverrun ==
    \A c \in Conns :
        /\ (c \in Subscribers /\ Missed(c) # {}) => fellBehind[c]
        /\ Heard(c) \subseteq PublishedSince(c)

\* C15 witness: d was subscribed for M1 and M2 and got both; c subscribed
\* after M1 and before M2 and got M2 only.
C15_Witness ==
    \E c, d \in Subscribers :
        /\ joined[d] = 0 /\ received[d] = << 1, 2 >>
        /\ joined[c] = 1 /\ received[c] = << 2 >>


\* The messages connection c has been sent are exactly the first ones
\* published after it subscribed, in order.
HeardAllSoFar(c) ==
    received[c] = [i \in 1..Len(received[c]) |-> joined[c] + i]

\* C16: the publisher can always publish, whatever the subscribers have read;
\* a subscriber that was never overrun has missed nothing, has been sent the
\* messages published since it subscribed without a gap, and can take its next
\* message whenever one is stored for it, however far behind another is.
C16_SlowSubscriberAffectsNobody ==
    /\ pubseq < MaxPublished => ENABLED Publish
    /\ \A c \in Subscribers :
          ~fellBehind[c] =>
              /\ Missed(c) = {}
              /\ HeardAllSoFar(c)
              /\ cursor[c] <= TailOf(c) => ENABLED Recv(c, FALSE)

\* C16 witness: d has been overrun without reading anything while c, which
\* subscribed with it, has been sent all three messages.
C16_Witness ==
    \E c, d \in Subscribers :
        /\ fellBehind[d] /\ received[d] = << >> /\ joined[d] = 0
        /\ ~fellBehind[c] /\ joined[c] = 0
        /\ received[c] = << 1, 2, 3 >>


\* C17: every connection is sent messages in the order they were published
\* and each at most once: what it was sent is a subsequence of the publish
\* sequence 1, 2, .., pubseq.
C17_PublishOrderAtMostOnce ==
    \A c \in Conns :
        /\ \A i \in 1..Len(received[c]) : received[c][i] \in 1..pubseq
        /\ \A i, j \in 1..Len(received[c]) :
              i < j => received[c][i] < received[c][j]

\* C17 witness: a connection that was overrun lost M1 and then was sent M2
\* and M3: a proper subsequence, in publish order.
C17_Witness ==
    \E c \in Subscribers :
        /\ fellBehind[c] /\ joined[c] = 0
        /\ received[c] = << 2, 3 >>


\* The messages a broadcast channel has stored.
StoredOn(ch) == { stored[ch][p] : p \in 1..Len(stored[ch]) }

ToggleRead(h) ==
    /\ pc[h] \in {"respond", "done"}
    /\ HandlerOf(req[h]) = "get_blocking_enabled"

\* C19: the sets of the blocking toggle form one total order (their version
\* numbers); every get answers the value of the latest set in that order at
\* the moment it reads, the initial value if there is none, and that set is
\* never older than a set whose response was returned before the get began.
C19_ToggleSequentiallyConsistent ==
    \A h \in Handlers :
        ToggleRead(h) =>
            /\ body[h] = [enabled |-> ticket[h].tseen.enabled]
            /\ ticket[h].tseen.version >= ticket[h].tfloor

\* C19 witness: PUT /blocking-enabled {enabled: false} was answered, a GET that
\* began afterwards answered false.
C19_Witness ==
    \E h, g \in Handlers :
        /\ HandlerOf(req[g]) = "put_blocking_enabled" /\ ~req[g].enabled
        /\ pc[g] = "done"
        /\ ToggleRead(h) /\ pc[h] = "done"
        /\ ticket[h].tfloor = ticket[g].tcommit /\ ticket[g].tcommit = 1
        /\ body[h] = [enabled |-> FALSE]


\* ---------------------------------------------------------- exclusion store

\* C20: whenever no mutation is in the Locked state the Exclusion Store holds
\* the exclusions of the persisted Configuration; when put_exclusions(S) has
\* succeeded both are S, and when its persisting has failed the store is what
\* it was before the request.
C20_ExclusionStoreMatchesPersisted ==
    /\ (\A h \in Handlers : ~Locked(h)) =>
           local_exclusions_store = persisted.exclusions
    /\ \A h \in Handlers :
          (AtRelease(h) /\ HandlerOf(req[h]) = "put_exclusions") =>
              /\ result[h] = "Ok" =>
                    /\ local_exclusions_store = req[h].entries
                    /\ persisted.exclusions = req[h].entries
              /\ result[h] = "PersistenceError" =>
                    /\ local_exclusions_store = pre[h].exclusions
                    /\ persisted.exclusions = pre[h].exclusions

\* ------------------------------------------------------------ error envelope

Failures == {"Conflict", "NotFound", "UpstreamFetchError", "PersistenceError"}

\* Task h has returned the response of a failed handler.
Failed(h) == pc[h] = "done" /\ result[h] \in Failures

\* ------------------------------------- SearchFilterList: update and its tasks

\* The Configurations the settings page may find at start: those of
\* LoadedConfigurations, or one whose only list bears the name of the
\* catalogue row with the unparsable URL.
FrontendConfigurations ==
    LoadedConfigurations
    \cup { [filters |-> {Filter("Broken", "Regional", "https://b/", TRUE)},
            custom |-> "", exclusions |-> {}] }

\* The catalogue rows whose button the user presses.
ClickedNames == {"EasyList", "Peter", "Broken"}

\* The rows view renders while the modal is open.
Rendered ==
    LET page == paginated_filters(filters, filter_query, current_page)
    IN  IF is_open THEN { page[i] : i \in 1..Len(page) } ELSE {}

\* Variant: the filter is listed as active before the URL is parsed.
active_filters_push_unparsed(active, filter) ==
    Append(active, FrontendFilter(filter.name, "Malware", ""))

\* AddFilter: self.active_filters.push(Filter::new(name, Malware, "")), which
\* the early return on a URL that does not parse skips.
active_filters_push(active, filter) ==
    IF UrlParse(filter.primary_view_url) = NoUrl THEN active
    ELSE Append(active, FrontendFilter(filter.name, "Malware", ""))

\* The requests a message hands to spawn_local, in the order sent.
Sending(requests) ==
    IF requests = {} THEN outbox
    ELSE Append(outbox, CHOOSE r \in requests : TRUE)

ServerUnchanged ==
    UNCHANGED << pc, req, result, body, snapshot, local_exclusions_store,
                 blocking_disabled_store, configuration_save_lock, channel,
                 engine_configuration, loaded, saved, sent, nsent,
                 channel_commits, engine_commit, commits, pre, ticket, toggle,
                 response >>

FrontendFrame ==
    /\ ServerUnchanged
    /\ UNCHANGED << configuration, persisted >>
    /\ UNCHANGED staticVars
    /\ UNCHANGED telemetryVars

\* SearchFilterMessage::Open, and the LoadFilters message it sends to itself:
\* a loading task is spawned while self.loading is set.
SearchFilterMessage_Open ==
    /\ loading => Len(loads) < MaxLoads
    /\ is_open' = TRUE
    /\ loads' = IF loading THEN Append(loads, "languages") ELSE loads
    /\ rerender' = TRUE
    /\ UNCHANGED << filters, filter_query, loading, languages, licenses, tags,
                    current_page, active_filters, outbox >>
    /\ FrontendFrame

\* SearchFilterMessage::Close, from the modal's close button.
SearchFilterMessage_Close ==
    /\ is_open
    /\ is_open' = FALSE
    /\ rerender' = TRUE
    /\ UNCHANGED << filters, filter_query, loading, languages, licenses, tags,
                    current_page, active_filters, loads, outbox >>
    /\ FrontendFrame

\* SearchFilterMessage::FilterChanged(query), from the modal's search input.
SearchFilterMessage_FilterChanged(query) ==
    /\ is_open
    /\ filter_query' = query
    /\ rerender' = TRUE
    /\ UNCHANGED << is_open, filters, loading, languages, licenses, tags,
                    current_page, active_filters, loads, outbox >>
    /\ FrontendFrame

\* SearchFilterMessage::NextPage, from the Next button while it is enabled.
SearchFilterMessage_NextPage ==
    /\ is_open
    /\ current_page # total_pages(filters, filter_query)
    /\ current_page' = IF current_page < NextPageLimit(filters)
                       THEN current_page + 1 ELSE current_page
    /\ rerender' = TRUE
    /\ UNCHANGED << is_open, filters, filter_query, loading, languages, licenses,
                    tags, active_filters, loads, outbox >>
    /\ FrontendFrame

\* SearchFilterMessage::PreviousPage, from the Previous button while enabled.
SearchFilterMessage_PreviousPage ==
    /\ is_open
    /\ current_page # 1
    /\ current_page' = IF current_page > 1 THEN current_page - 1 ELSE current_page
    /\ rerender' = TRUE
    /\ UNCHANGED << is_open, filters, filter_query, loading, languages, licenses,
                    tags, active_filters, loads, outbox >>
    /\ FrontendFrame

\* SearchFilterMessage::AddFilter(filter), from a rendered row whose button
\* reads "Add".
SearchFilterMessage_AddFilter(filter) ==
    /\ filter \in Rendered
    /\ filter.name \in ClickedNames
    /\ ~existing_filter(active_filters, filter)
    /\ Len(outbox) < MaxRequests
    /\ outbox' = Sending(AddFilterMessage(tags, filter))
    /\ active_filters' = active_filters_push(active_filters, filter)
    /\ rerender' = (UrlParse(filter.primary_view_url) # NoUrl)
    /\ UNCHANGED << is_open, filters, filter_query, loading, languages, licenses,
                    tags, current_page, loads >>
    /\ FrontendFrame

\* SearchFilterMessage::RemoveFilter(filter), from a rendered row whose
\* button reads "Remove".
SearchFilterMessage_RemoveFilter(filter) ==
    /\ filter \in Rendered
    /\ filter.name \in ClickedNames
    /\ existing_filter(active_filters, filter)
    /\ Len(outbox) < MaxRequests
    /\ outbox' = Sending(RemoveFilterMessage(filter))
    /\ rerender' = (UrlParse(filter.primary_view_url) # NoUrl)
    /\ UNCHANGED << is_open, filters, filter_query, loading, languages, licenses,
                    tags, current_page, active_filters, loads >>
    /\ FrontendFrame

\* The fetch a loading task awaits at each position, and the next position.
NextFetch(at) ==
    CASE at = "languages" -> "licenses"
      [] at = "licenses"  -> "tags"
      [] at = "tags"      -> "filters"
      [] OTHER            -> "finished"

\* One await of loading task t returns and the message it sends is processed:
\* LanguagesLoaded, LicensesLoaded, TagsLoaded or FiltersLoaded when the fetch
\* succeeded, Error when it failed; the task goes on to its next fetch.
LoadStep(t, ok) ==
    /\ t \in 1..Len(loads)
    /\ loads[t] # "finished"
    /\ loads' = [loads EXCEPT ![t] = NextFetch(loads[t])]
    /\ languages' = IF ok /\ loads[t] = "languages" THEN LoadedLanguages ELSE languages
    /\ licenses' = IF ok /\ loads[t] = "licenses" THEN LoadedLicenses ELSE licenses
    /\ tags' = IF ok /\ loads[t] = "tags" THEN LoadedTags ELSE tags
    /\ filters' = IF ok /\ loads[t] = "filters" THEN CatalogueList ELSE filters
    /\ loading' = IF ~ok \/ loads[t] = "filters" THEN FALSE ELSE loading
    /\ rerender' = TRUE
    /\ UNCHANGED << is_open, filter_query, current_page, active_filters, outbox >>
    /\ FrontendFrame

\* The request at position i of the outbox is answered. When it reached the
\* server and passed the handler's validation, the Configuration and the
\* configuration file have the mutation; otherwise nothing changed. The
\* spawned task only logs the outcome.
ServerAnswers(i, reached) ==
    /\ i \in 1..Len(outbox)
    /\ LET r == outbox[i]
           done == reached /\ Validate(configuration, r) = "Ok"
       IN  /\ configuration' = IF done THEN Mutation(configuration, r)
                               ELSE configuration
           /\ persisted' = IF done THEN Mutation(configuration, r) ELSE persisted
    /\ outbox' = SubSeq(outbox, 1, i - 1) \o SubSeq(outbox, i + 1, Len(outbox))
    /\ UNCHANGED << componentVars, loads, rerender >>
    /\ ServerUnchanged
    /\ UNCHANGED staticVars
    /\ UNCHANGED telemetryVars

FrontendNext ==
    \/ SearchFilterMessage_Open
    \/ SearchFilterMessage_Close
    \/ \E query \in Queries : SearchFilterMessage_FilterChanged(query)
    \/ SearchFilterMessage_NextPage
    \/ SearchFilterMessage_PreviousPage
    \/ \E filter \in Rendered : SearchFilterMessage_AddFilter(filter)
    \/ \E filter \in Rendered : SearchFilterMessage_RemoveFilter(filter)
    \/ \E t \in 1..MaxLoads, ok \in BOOLEAN : LoadStep(t, ok)
    \/ \E i \in 1..MaxRequests, reached \in BOOLEAN : ServerAnswers(i, reached)

FrontendInit ==
    /\ InitServerFrom(FrontendConfigurations)
    /\ StaticIdle
    /\ create(Props(loaded))

\* The settings page's SearchFilterList against the API server.
FrontendSpec == FrontendInit /\ [][FrontendNext]_vars


\* ------------------------------------------------ SearchFilterList: claims

\* C23: after any sequence of Open, Close, FilterChanged, FiltersLoaded,
\* NextPage and PreviousPage the current page is at least 1 and at most the
\* page count view displays, the one of the list as filtered by the search
\* query. Stated for the displays that have a page at all: with none, as
\* before the catalogue arrives, no page number is within the bounds.
C23_PageWithinDisplayedTotal ==
    total_pages(filters, filter_query) >= 1 =>
        /\ current_page >= 1
        /\ current_page <= total_pages(filters, filter_query)

\* The loading tasks that have a fetch still to await.
InFlight == { t \in 1..Len(loads) : loads[t] # "finished" }

\* The server's Configuration holds a filter bearing the row's name.
Configured(filter) == \E f \in configuration.filters : f.name = filter.name

\* C24: once every add and remove request has been answered, a catalogue row
\* shows "Remove" exactly when the server's Configuration holds a filter with
\* the row's name.
C24_RemoveShownIffConfigured ==
    outbox = << >> =>
        \A i \in 1..Len(filters) :
            existing_filter(active_filters, filters[i]) <=> Configured(filters[i])

\* C25: at most one catalogue-loading task is in flight, whatever Open and
\* Close messages arrive.
C25_AtMostOneLoadInFlight == Cardinality(InFlight) <= 1

\* C26: an AddFilter or RemoveFilter message whose catalogue URL does not
\* parse sends no request, leaves every field of the component as it was,
\* active_filters included, and makes update return false.
C26_UnparsedUrlChangesNothing ==
    [][\A filter \in Rendered :
          ( /\ UrlParse(filter.primary_view_url) = NoUrl
            /\ \/ SearchFilterMessage_AddFilter(filter)
               \/ SearchFilterMessage_RemoveFilter(filter) )
          => /\ UNCHANGED componentVars
             /\ UNCHANGED outbox
             /\ rerender' = FALSE]_vars

\* update has just returned false on a rendered row whose URL does not parse:
\* every other message returns true, and rows are rendered only after some did.
C26_Witness ==
    /\ ~rerender
    /\ \E filter \in Rendered : UrlParse(filter.primary_view_url) = NoUrl


\* C21: every handler failure is answered with the JSON error envelope, with
\* a 4xx status for validation (Conflict) and not-found errors and a 5xx
\* status for persistence and upstream-fetch errors.
C21_StatusByErrorKind ==
    \A h \in Handlers :
        Failed(h) =>
            /\ response[h].content_type = "application/json"
            /\ response[h].body = [error |-> result[h]]
            /\ result[h] \in {"Conflict", "NotFound"} =>
                  response[h].status \in 400..499
            /\ result[h] \in {"UpstreamFetchError", "PersistenceError"} =>
                  response[h].status \in 500..599


\* ------------------------------------------------------ static file server

\* GET /<tail> on the static file server.
StaticGet(tail) ==
    /\ served' = [tail |-> tail] @@ static_file_response(bundle, api_addr, tail)
    /\ UNCHANGED << bundle, api_addr >>
    /\ UNCHANGED httpVars
    /\ UNCHANGED telemetryVars
    /\ UNCHANGED frontendVars

StaticNext == \E tail \in Tails : StaticGet(tail)

StaticInit ==
    /\ InitServer
    /\ loaded = EmptyConfiguration
    /\ bundle \in Bundles
    /\ api_addr \in ApiAddrs
    /\ served = NoServed
    /\ create(<< >>)

\* The static file server over every bundle and API address.
StaticSpec == StaticInit /\ [][StaticNext]_vars

\* The bundled index.html with the placeholder filled in.
IndexFor(dir, addr) ==
    [i \in 1..Len(dir["index.html"]) |->
        IF dir["index.html"][i] = API_HOST_PLACEHOLDER
        THEN addr ELSE dir["index.html"][i]]

\* C22: the body of a GET is the bundled file at that path, unaltered, when
\* one exists and is not index.html; otherwise (index.html by name, or no
\* file at the path) it is the bundled index.html with every API-host
\* placeholder replaced by the API address and nothing else changed.
C22_StaticFileOrIndex ==
    served # NoServed =>
        IF bundle[served.tail] # Absent /\ served.tail # "index.html"
        THEN served.body = bundle[served.tail]
        ELSE /\ served.body = IndexFor(bundle, api_addr)
             /\ \A i \in 1..Len(served.body) :
                   served.body[i] # API_HOST_PLACEHOLDER

\* C22 witness: a path with no bundled file was answered with index.html,
\* its placeholder replaced, while the bundled app.js keeps its placeholder.
C22_Witness ==
    /\ served.tail = "missing.js"
    /\ bundle["index.html"] = << "<p>", API_HOST_PLACEHOLDER >>
    /\ served.body = << "<p>", api_addr >>
    /\ bundle["app.js"] = << API_HOST_PLACEHOLDER >>

====
